---- MODULE Spec2Model ----
(***************************************************************************)
(* A model of package script (pipes.go): the Pipe object, its error slot,  *)
(* its streaming flag, Synchronize, and the streaming chain of stages that *)
(* the tests of pipes_test.go drive through it.                            *)
(***************************************************************************)
EXTENDS Integers, Sequences, FiniteSets, TLC

VARIABLES
    pipes,      \* the heap of Pipe structs; a *Pipe is an index, 0 is nil
    rd,         \* the heap of readers behind Pipe.Reader; 0 is ReadAutoCloser{}
    ret,        \* the last call of the API: its receiver, what it returned
    chain,      \* the streaming chain: its stages' functions, its input, where
                \* each stage fails, and what the caller does with it
    stage,      \* each stage's position, the record it holds, its pending output
    counter,    \* n, the counter the stages' functions share
    caller,     \* the caller of Wait or Synchronize: its position and results
    hist        \* history: the first error recorded, what happened after it

vars == <<pipes, rd, ret, chain, stage, counter, caller, hist>>

chainVars == <<chain, stage, counter, caller, hist>>

----------------------------------------------------------------------------
\* Bounds of the model.

MaxPipes == 1
MaxReaders == 1
MaxSyncs == 1
MaxBuf == 2
CopyBuf == 1
MaxRecords == 3
Cap == 2
MaxDigits == 3

----------------------------------------------------------------------------
\* Values.

NilPipe == 0

NoReader == 0

NoErr == [nil |-> TRUE, text |-> <<>>]

MkErr(t) == [nil |-> FALSE, text |-> t]

\* The texts of the errors that the callers set: "b", "exit status 1".
ExitPrefix == <<"e", "x", "i", "t", " ", "s", "t", "a", "t", "u", "s", " ">>

ErrTexts == { <<"b">>, ExitPrefix \o <<"1">> }

Errs == { MkErr(t) : t \in ErrTexts }

\* The sources the model draws from: 1, 2, ..., n, for n up to one more than
\* a single read of io.Copy takes.
MaxData == CopyBuf + 1

Datas == { [i \in 1..n |-> i] : n \in 0..MaxData }

Min(a, b) == IF a < b THEN a ELSE b

\* The result of a call: the heap after it, the *Pipe it returns, the count
\* and status of a Read, the error it returns, whether it panicked, and how
\* many times it called Close on its receiver.
Res(ps, rs, ref, data, rerr, e, fault) ==
    [ps |-> ps, rs |-> rs, ref |-> ref, n |-> Len(data), data |-> data,
     rerr |-> rerr, e |-> e, fault |-> fault, closes |-> 0]

\* A call that returns normally, with nothing read.
Ok(ps, rs, ref) == Res(ps, rs, ref, <<>>, "nil", NoErr, FALSE)

EndOfData(ps, rs) == Res(ps, rs, NilPipe, <<>>, "EOF", NoErr, FALSE)

----------------------------------------------------------------------------
\* The Closable Source behind Pipe.Reader.

\* A reader: the bytes not yet read, whether the writing side has finished
\* (end-of-data follows the bytes), and how often its release action ran.
MkReader(data, wclosed) == [buf |-> data, wclosed |-> wclosed, released |-> 0]

\* The release action runs at most once.
Release(rs, r) ==
    IF r = NoReader \/ rs[r].released > 0 THEN rs
    ELSE [rs EXCEPT ![r].released = 1]

\* Mutant of CanRead: a read waits for data, also at the end of the source.
CanReadNeedsData(rs, r) ==
    IF r = NoReader THEN FALSE ELSE rs[r].buf # <<>>

\* A read blocks while the source is empty and its writer has not finished.
CanRead(rs, r) ==
    IF r = NoReader THEN TRUE
    ELSE IF rs[r].released > 0 THEN TRUE
    ELSE IF rs[r].buf # <<>> THEN TRUE
    ELSE rs[r].wclosed

ReaderRead(ps, rs, r, len) ==
    IF r = NoReader \/ rs[r].released > 0
    THEN EndOfData(ps, rs)
    ELSE IF rs[r].buf = <<>>
    THEN EndOfData(ps, Release(rs, r))
    ELSE LET n == Min(len, Len(rs[r].buf))
         IN Res(ps, [rs EXCEPT ![r].buf = SubSeq(@, n + 1, Len(@))],
                NilPipe, SubSeq(rs[r].buf, 1, n), "nil", NoErr, FALSE)

ReaderClose(ps, rs, r) ==
    Ok(ps, Release(rs, r), NilPipe)

NewReadAutoCloser(rs, data) == Append(rs, MkReader(data, TRUE))

----------------------------------------------------------------------------
\* pipes.go

NewPipe(ps, rs) ==
    Ok(Append(ps, [Reader |-> NoReader, err |-> NoErr, async |-> FALSE]),
       rs, Len(ps) + 1)

\* Mutant of Close: the call is not forwarded to the reader.
CloseLeavesOpen(ps, rs, p) == Ok(ps, rs, NilPipe)

Close(ps, rs, p) ==
    IF p = NilPipe THEN Ok(ps, rs, NilPipe)
    ELSE ReaderClose(ps, rs, ps[p].Reader)

\* Mutant of Error: the error slot is not returned.
ErrorAlwaysNil(ps, p) == NoErr

Error(ps, p) ==
    IF p = NilPipe THEN NoErr ELSE ps[p].err

IsDigit(c) == c \in {"0", "1", "2", "3", "4", "5", "6", "7", "8", "9"}

DigitValue(c) ==
    CASE c = "0" -> 0 [] c = "1" -> 1 [] c = "2" -> 2 [] c = "3" -> 3
      [] c = "4" -> 4 [] c = "5" -> 5 [] c = "6" -> 6 [] c = "7" -> 7
      [] c = "8" -> 8 [] OTHER -> 9

\* strconv.Atoi of a run of digits.
RECURSIVE Atoi(_)
Atoi(ds) ==
    IF ds = <<>> THEN 0
    ELSE 10 * Atoi(SubSeq(ds, 1, Len(ds) - 1)) + DigitValue(ds[Len(ds)])

\* The largest int, 1<<63 - 1, as strconv.Atoi bounds its result.
MaxInt64Digits ==
    <<"9", "2", "2", "3", "3", "7", "2", "0", "3", "6",
      "8", "5", "4", "7", "7", "5", "8", "0", "7">>

RECURSIVE StripZeros(_)
StripZeros(ds) ==
    IF ds # <<>> /\ Head(ds) = "0" THEN StripZeros(Tail(ds)) ELSE ds

\* a <= b, for digit sequences of one length.
RECURSIVE DigitsLeq(_, _)
DigitsLeq(a, b) ==
    IF a = <<>> THEN TRUE
    ELSE IF DigitValue(Head(a)) # DigitValue(Head(b))
    THEN DigitValue(Head(a)) < DigitValue(Head(b))
    ELSE DigitsLeq(Tail(a), Tail(b))

\* strconv.Atoi returns a range error for a value beyond the largest int.
AtoiOverflows(ds) ==
    LET d == StripZeros(ds)
    IN IF Len(d) # Len(MaxInt64Digits) THEN Len(d) > Len(MaxInt64Digits)
       ELSE ~DigitsLeq(d, MaxInt64Digits)

\* exitStatusPattern, `exit status (\d+)$`, matched at position i of t.
MatchesAt(t, i) ==
    /\ i + Len(ExitPrefix) <= Len(t)
    /\ SubSeq(t, i, i + Len(ExitPrefix) - 1) = ExitPrefix
    /\ \A j \in (i + Len(ExitPrefix))..Len(t) : IsDigit(t[j])

\* Mutant of FindStringSubmatch: the pattern without its $, so that the
\* digits need not run to the end of the text.
FindStringSubmatchUnanchored(t) ==
    LET P == Len(ExitPrefix)
        starts == { i \in 1..Len(t) :
                      /\ i + P <= Len(t)
                      /\ SubSeq(t, i, i + P - 1) = ExitPrefix
                      /\ IsDigit(t[i + P]) }
    IN IF starts = {} THEN <<>>
       ELSE LET i == CHOOSE k \in starts : \A m \in starts : k <= m
                last == CHOOSE j \in (i + P)..Len(t) :
                           /\ \A q \in (i + P)..j : IsDigit(t[q])
                           /\ (j = Len(t) \/ ~IsDigit(t[j + 1]))
            IN SubSeq(t, i + P, last)

\* FindStringSubmatch: the submatch of the leftmost match, <<>> without one.
FindStringSubmatch(t) ==
    LET starts == { i \in 1..Len(t) : MatchesAt(t, i) }
    IN IF starts = {} THEN <<>>
       ELSE LET i == CHOOSE k \in starts : \A m \in starts : k <= m
            IN SubSeq(t, i + Len(ExitPrefix), Len(t))

ExitStatus(ps, p) ==
    LET perr == Error(ps, p)
    IN IF perr.nil THEN 0
       ELSE LET match == FindStringSubmatch(perr.text)
            IN IF match = <<>> THEN 0
               ELSE IF AtoiOverflows(match) THEN 0
               ELSE Atoi(match)

Read(ps, rs, p, len) ==
    IF p = NilPipe THEN EndOfData(ps, rs)
    ELSE ReaderRead(ps, rs, ps[p].Reader, len)

\* Mutant of SetError: an error that is set is kept.
SetErrorKeepsFirst(ps, p, e) ==
    IF p # NilPipe /\ ps[p].err = NoErr THEN [ps EXCEPT ![p].err = e] ELSE ps

SetError(ps, p, e) ==
    IF p # NilPipe THEN [ps EXCEPT ![p].err = e] ELSE ps

\* Mutant of WithReader: the Pipe is rebuilt around the new reader, which
\* turns streaming off.
WithReaderBatch(ps, rs, p, data) ==
    IF p = NilPipe THEN Ok(ps, rs, NilPipe)
    ELSE Ok([ps EXCEPT ![p].Reader = Len(rs) + 1, ![p].async = FALSE],
            NewReadAutoCloser(rs, data), p)

\* Mutant of WithReader: a new reader starts without an error.
WithReaderClearsError(ps, rs, p, data) ==
    IF p = NilPipe THEN Ok(ps, rs, NilPipe)
    ELSE Ok([ps EXCEPT ![p].Reader = Len(rs) + 1, ![p].err = NoErr],
            NewReadAutoCloser(rs, data), p)

WithReader(ps, rs, p, data) ==
    IF p = NilPipe THEN Ok(ps, rs, NilPipe)
    ELSE Ok([ps EXCEPT ![p].Reader = Len(rs) + 1], NewReadAutoCloser(rs, data), p)

WithError(ps, rs, p, e) ==
    Ok(SetError(ps, p, e), rs, p)

\* p.async = async dereferences p: on a nil p it panics.
withAsync(ps, rs, p, async) ==
    IF p = NilPipe THEN Res(ps, rs, p, <<>>, "nil", NoErr, TRUE)
    ELSE Ok([ps EXCEPT ![p].async = async], rs, p)

Stream(ps, rs) ==
    LET np == NewPipe(ps, rs) IN withAsync(np.ps, np.rs, np.ref, TRUE)

\* Mutant of PipeStream: the nil check forgotten.
PipeStreamUnguarded(ps, rs, p) == withAsync(ps, rs, p, TRUE)

PipeStream(ps, rs, p) ==
    IF p = NilPipe THEN Ok(ps, rs, p)
    ELSE withAsync(ps, rs, p, TRUE)

\* Mutant of CopyStep: each read overwrites the buffer instead of growing it.
CopyStepOverwrites(rs, r, w) ==
    LET got == ReaderRead(<<>>, rs, r, CopyBuf)
    IN [w |-> IF got.rerr = "EOF" THEN w ELSE got.data, rs |-> got.rs,
        done |-> got.rerr = "EOF"]

\* One read of io.Copy(&w, r): CopyBuf bytes at most, appended to w.
CopyStep(rs, r, w) ==
    LET got == ReaderRead(<<>>, rs, r, CopyBuf)
    IN [w |-> w \o got.data, rs |-> got.rs, done |-> got.rerr = "EOF"]

\* io.Copy(&w, r): reads until end-of-data.
RECURSIVE IoCopy(_, _, _)
IoCopy(rs, r, w) ==
    LET c == CopyStep(rs, r, w)
    IN IF c.done THEN [w |-> c.w, rs |-> c.rs] ELSE IoCopy(c.rs, r, c.w)

\* Mutant of SyncNoop: the streaming flag is not consulted.
SyncNoopIgnoresAsync(ps, p) ==
    IF p = NilPipe THEN TRUE ELSE Error(ps, p) # NoErr

\* The guard of Synchronize: nothing to do.
SyncNoop(ps, p) ==
    IF p = NilPipe THEN TRUE
    ELSE IF Error(ps, p) # NoErr THEN TRUE
    ELSE ~ps[p].async

\* Mutant of SyncResult: the new Pipe is left in streaming mode.
SyncResultStreaming(ps, rs, w) ==
    LET np == NewPipe(ps, rs)
        wr == WithReader(np.ps, np.rs, np.ref, w)
    IN withAsync(wr.ps, wr.rs, wr.ref, TRUE)

\* NewPipe().WithReader(bytes.NewReader(w.Bytes())).withAsync(false)
SyncResult(ps, rs, w) ==
    LET np == NewPipe(ps, rs)
        wr == WithReader(np.ps, np.rs, np.ref, w)
    IN withAsync(wr.ps, wr.rs, wr.ref, FALSE)

Synchronize(ps, rs, p) ==
    IF SyncNoop(ps, p) THEN Ok(ps, rs, p)
    ELSE LET c == IoCopy(rs, ps[p].Reader, <<>>)
         IN SyncResult(ps, c.rs, c.w)

----------------------------------------------------------------------------
\* The sinks, String and CountLines.

\* ioutil.ReadAll(p): Read after Read until end-of-data.
RECURSIVE ReadAll(_, _, _, _)
ReadAll(ps, rs, p, w) ==
    LET got == Read(ps, rs, p, CopyBuf)
    IN IF got.rerr = "EOF" THEN [w |-> w, rs |-> got.rs]
       ELSE ReadAll(ps, got.rs, p, w \o got.data)

\* A sink drains the Pipe, closes it and returns what it read with the
\* error of the Pipe; on a nil Pipe it returns its zero result.
Sink(ps, rs, p) ==
    IF p = NilPipe THEN Ok(ps, rs, NilPipe)
    ELSE LET all == ReadAll(ps, rs, p, <<>>)
             cl == Close(ps, all.rs, p)
         IN [Res(cl.ps, cl.rs, NilPipe, all.w, "nil", Error(cl.ps, p), cl.fault)
               EXCEPT !.closes = 1]

\* String returns the bytes, CountLines their number.
String(ps, rs, p) == Sink(ps, rs, p)

CountLines(ps, rs, p) == [Sink(ps, rs, p) EXCEPT !.data = <<>>]

----------------------------------------------------------------------------
\* A caller of the API: any method on any *Pipe it holds, nil included.

Refs == 0..Len(pipes)

\* What the receiver looked like when the call was made: its error, its
\* streaming flag, the bytes its source had left and whether it was released.
Pre(p) ==
    IF p = NilPipe
    THEN [err |-> NoErr, async |-> FALSE, buf |-> <<>>, released |-> 0]
    ELSE [err |-> pipes[p].err, async |-> pipes[p].async,
          buf |-> IF pipes[p].Reader = NoReader THEN <<>> ELSE rd[pipes[p].Reader].buf,
          released |-> IF pipes[p].Reader = NoReader THEN 0
                       ELSE rd[pipes[p].Reader].released]

\* A call with the error arg as its argument has returned r.
ReturnedArg(op, p, arg, r) ==
    /\ pipes' = r.ps
    /\ rd' = r.rs
    /\ ret' = [op |-> op, recv |-> p, arg |-> arg, ref |-> r.ref, n |-> r.n,
               data |-> r.data, rerr |-> r.rerr, e |-> r.e, fault |-> r.fault,
               closes |-> r.closes, pre |-> Pre(p),
               changed |-> (r.ps # pipes \/ r.rs # rd)]
    /\ UNCHANGED chainVars

Returned(op, p, r) == ReturnedArg(op, p, NoErr, r)

CallNewPipe ==
    /\ Len(pipes) < MaxPipes
    /\ Returned("NewPipe", NilPipe, NewPipe(pipes, rd))

CallStream ==
    /\ Len(pipes) < MaxPipes
    /\ Returned("Stream", NilPipe, Stream(pipes, rd))

CallClose(p) ==
    Returned("Close", p, Close(pipes, rd, p))

CallError(p) ==
    Returned("Error", p, [Ok(pipes, rd, NilPipe) EXCEPT !.e = Error(pipes, p)])

CallExitStatus(p) ==
    Returned("ExitStatus", p, [Ok(pipes, rd, NilPipe) EXCEPT !.n = ExitStatus(pipes, p)])

CallRead(p, len) ==
    Returned("Read", p, Read(pipes, rd, p, len))

CallSetError(p, e) ==
    ReturnedArg("SetError", p, e, Ok(SetError(pipes, p, e), rd, NilPipe))

CallWithReader(p, data) ==
    /\ Len(rd) < MaxReaders
    /\ Returned("WithReader", p, WithReader(pipes, rd, p, data))

CallWithError(p, e) ==
    ReturnedArg("WithError", p, e, WithError(pipes, rd, p, e))

CallPipeStream(p) ==
    Returned("PipeStream", p, PipeStream(pipes, rd, p))

CallSynchronize(p) ==
    /\ IF SyncNoop(pipes, p) THEN TRUE
       ELSE Len(pipes) < MaxPipes + MaxSyncs /\ Len(rd) < MaxReaders + MaxSyncs
    /\ Returned("Synchronize", p, Synchronize(pipes, rd, p))

CallString(p) ==
    Returned("String", p, String(pipes, rd, p))

CallCountLines(p) ==
    Returned("CountLines", p, CountLines(pipes, rd, p))

NoRet ==
    [op |-> "none", recv |-> NilPipe, arg |-> NoErr, ref |-> NilPipe, n |-> 0,
     data |-> <<>>, rerr |-> "nil", e |-> NoErr, fault |-> FALSE, closes |-> 0,
     pre |-> [err |-> NoErr, async |-> FALSE, buf |-> <<>>, released |-> 0],
     changed |-> FALSE]

NoChain == [kinds |-> <<>>, input |-> <<>>, failAt |-> <<>>, mode |-> "none"]

NoCaller == [pc |-> "none", w |-> <<>>, sp |-> NilPipe, waitRet |-> NoErr, post |-> 0]

NoHist == [firstErr |-> NoErr, after |-> <<>>, observed |-> <<>>, ahead |-> FALSE,
           late |-> FALSE, emitted |-> 0, drainErr |-> NoErr]

Init ==
    /\ pipes = <<>>
    /\ rd = <<>>
    /\ ret = NoRet
    /\ chain = NoChain
    /\ stage = <<>>
    /\ counter = 0
    /\ caller = NoCaller
    /\ hist = NoHist

Next ==
    \/ CallNewPipe
    \/ CallStream
    \/ \E p \in Refs : CallClose(p)
    \/ \E p \in Refs : CallError(p)
    \/ \E p \in Refs : CallExitStatus(p)
    \/ \E p \in Refs, len \in 0..MaxBuf : CallRead(p, len)
    \/ \E p \in Refs, e \in Errs \cup {NoErr} : CallSetError(p, e)
    \/ \E p \in Refs, data \in Datas : CallWithReader(p, data)
    \/ \E p \in Refs, e \in Errs \cup {NoErr} : CallWithError(p, e)
    \/ \E p \in Refs : CallPipeStream(p)
    \/ \E p \in Refs : CallSynchronize(p)
    \/ \E p \in Refs : CallString(p)
    \/ \E p \in Refs : CallCountLines(p)

Spec == Init /\ [][Next]_vars

----------------------------------------------------------------------------
\* ExitStatus over the texts an error can have: p := NewPipe(),
\* p.SetError(fmt.Errorf(input)), p.ExitStatus(), as TestExitStatus does.

Seqs(S, n) == UNION { [1..k -> S] : k \in 0..n }

\* What follows "exit status ": digits, a letter, a space.
SuffixChars == {"0", "1", "2", "7", "b", " "}

\* One more than the largest int, and a run of digits longer than any int.
TooLarge ==
    { [MaxInt64Digits EXCEPT ![Len(MaxInt64Digits)] = "8"],
      [i \in 1..(Len(MaxInt64Digits) + 1) |-> "9"] }

ExitTexts ==
    { pre \o mid \o suf :
        pre \in { <<>>, <<"x">> },
        mid \in { <<>>, ExitPrefix, SubSeq(ExitPrefix, 1, Len(ExitPrefix) - 1) },
        suf \in Seqs(SuffixChars, MaxDigits) \cup TooLarge }

InitExit ==
    /\ \E e \in {NoErr} \cup { MkErr(t) : t \in ExitTexts } :
          pipes = SetError(NewPipe(<<>>, <<>>).ps, 1, e)
    /\ rd = <<>>
    /\ ret = NoRet
    /\ chain = NoChain
    /\ stage = <<>>
    /\ counter = 0
    /\ caller = NoCaller
    /\ hist = NoHist

NextExit == \E p \in Refs : CallExitStatus(p)

SpecExit == InitExit /\ [][NextExit]_vars

----------------------------------------------------------------------------
\* The functions the tests hand to EachLine, and two that only transform
\* the record they are given.

\* Mutant of Effect: timesTwo adds two instead of doubling.
EffectTimesTwoAdds(kind, c) ==
    CASE kind = "plusOne" -> c + 1
      [] kind = "plusOneAndDoubleLine" -> c + 1
      [] kind = "timesTwo" -> c + 2
      [] OTHER -> c

\* n after one call of the function.
Effect(kind, c) ==
    CASE kind = "plusOne" -> c + 1
      [] kind = "plusOneAndDoubleLine" -> c + 1
      [] kind = "timesTwo" -> c * 2
      [] OTHER -> c

\* The lines the function writes for record x; 0 is an empty line.
Emit(kind, x) ==
    CASE kind = "plusOne" -> <<0>>
      [] kind = "plusOneAndDoubleLine" -> <<0, 0>>
      [] kind = "timesTwo" -> <<0>>
      [] kind = "twice" -> <<x, x>>
      [] OTHER -> <<x + 1>>

CounterChains == { <<"plusOne", "timesTwo">>, <<"plusOneAndDoubleLine", "timesTwo">> }

Chains == CounterChains \cup { <<"twice", "succ">>, <<"succ", "twice">> }

StageIds == 1..2

\* The error a failing stage records: "exit status <s>".
StageErr(s) == MkErr(ExitPrefix \o <<IF s = 1 THEN "1" ELSE "2">>)

\* want, as the tests compute it: per record, want++ and then want *= 4
\* (TestStream, TestStreamFilter) or want *= 2 (TestSynchronize).
RECURSIVE Want(_, _)
Want(kinds, k) ==
    IF k = 0 THEN 0
    ELSE IF kinds[1] = "plusOneAndDoubleLine" THEN (Want(kinds, k - 1) + 1) * 4
    ELSE (Want(kinds, k - 1) + 1) * 2

\* EachLine on a Pipe that is not streaming: the lines the function writes
\* for each line of the input, one after the other.
RECURSIVE EachLineBatch(_, _)
EachLineBatch(kind, lines) ==
    IF lines = <<>> THEN <<>>
    ELSE Emit(kind, Head(lines)) \o EachLineBatch(kind, Tail(lines))

RECURSIVE BatchRun(_, _)
BatchRun(kinds, lines) ==
    IF kinds = <<>> THEN lines
    ELSE BatchRun(Tail(kinds), EachLineBatch(Head(kinds), lines))

----------------------------------------------------------------------------
\* The streaming chain: Slice(input).Stream().EachLine(f1).EachLine(f2),
\* then Wait(), or Synchronize().EachLine(timesTwo).

\* The *Pipe of the chain.
cp == 1

NStages == Len(chain.kinds)

\* Mutant of ChanFull: the channel has no bound.
ChanNeverFull(rs, r) == FALSE

\* Stage s reads reader s and writes reader s + 1.
ChanFull(rs, r) == Len(rs[r].buf) >= Cap

\* Mutant of ChanWrite: the line goes to the front of the channel.
ChanWriteFront(rs, r, x) == [rs EXCEPT ![r].buf = <<x>> \o @]

ChanWrite(rs, r, x) == [rs EXCEPT ![r].buf = Append(@, x)]

\* A stage that ends releases its input and closes its output.
EndStage(rs, s) == [Release(rs, s) EXCEPT ![s + 1].wclosed = TRUE]

ErrSet == pipes[cp].err # NoErr

\* History: one more channel operation of s, counted when the error is set.
Counted(s) ==
    IF ErrSet THEN [hist.after EXCEPT ![s] = @ + 1] ELSE hist.after

\* Before it pulls, the stage consults the error.
StageCheck(s) ==
    /\ s <= NStages
    /\ stage[s].pc = "check"
    /\ IF Error(pipes, cp) # NoErr
       THEN /\ stage' = [stage EXCEPT ![s].pc = "done"]
            /\ rd' = EndStage(rd, s)
            /\ hist' = [hist EXCEPT !.observed[s] = TRUE]
       ELSE /\ stage' = [stage EXCEPT ![s].pc = "pull"]
            /\ UNCHANGED <<rd, hist>>
    /\ UNCHANGED <<pipes, ret, chain, counter, caller>>

\* It reads the next line of its predecessor, or finds it at end-of-data.
StagePull(s) ==
    /\ s <= NStages
    /\ stage[s].pc = "pull"
    /\ CanRead(rd, s)
    /\ LET got == ReaderRead(pipes, rd, s, 1)
       IN IF got.rerr = "EOF"
          THEN /\ stage' = [stage EXCEPT ![s].pc = "done"]
               /\ rd' = EndStage(got.rs, s)
               /\ UNCHANGED hist
          ELSE /\ stage' = [stage EXCEPT ![s].pc = "call", ![s].cur = got.data[1]]
               /\ rd' = got.rs
               /\ hist' = [hist EXCEPT !.after = Counted(s)]
    /\ UNCHANGED <<pipes, ret, chain, counter, caller>>

\* It calls the function on the line, which fails on the record chosen.
StageCall(s) ==
    /\ s <= NStages
    /\ stage[s].pc = "call"
    /\ LET fails == chain.failAt[s] = stage[s].cnt + 1
           lines == Emit(chain.kinds[s], stage[s].cur)
       IN /\ stage' = [stage EXCEPT ![s].cnt = @ + 1,
                                    ![s].pc = IF fails THEN "failed" ELSE "recheck",
                                    ![s].out = IF fails THEN <<>> ELSE lines]
          /\ counter' = IF fails THEN counter ELSE Effect(chain.kinds[s], counter)
          /\ hist' = [hist EXCEPT
                !.late = @ \/ caller.post > 0,
                !.ahead = @ \/ (s = 1 /\ hist.emitted # stage[2].cnt),
                !.emitted = IF s = 1 /\ ~fails THEN @ + Len(lines) ELSE @]
    /\ UNCHANGED <<pipes, rd, ret, chain, caller>>

\* A failure is recorded only when no error is there yet: the stage looks...
StageFailed(s) ==
    /\ s <= NStages
    /\ stage[s].pc = "failed"
    /\ IF Error(pipes, cp) # NoErr
       THEN /\ stage' = [stage EXCEPT ![s].pc = "done"]
            /\ rd' = EndStage(rd, s)
       ELSE /\ stage' = [stage EXCEPT ![s].pc = "record"]
            /\ UNCHANGED rd
    /\ UNCHANGED <<pipes, ret, chain, counter, caller, hist>>

\* ... and then calls SetError.
StageRecord(s) ==
    /\ s <= NStages
    /\ stage[s].pc = "record"
    /\ pipes' = SetError(pipes, cp, StageErr(s))
    /\ stage' = [stage EXCEPT ![s].pc = "done"]
    /\ rd' = EndStage(rd, s)
    /\ hist' = [hist EXCEPT !.firstErr = IF @ = NoErr THEN StageErr(s) ELSE @]
    /\ UNCHANGED <<ret, chain, counter, caller>>

\* Before it writes, the stage consults the error again.
StageRecheck(s) ==
    /\ s <= NStages
    /\ stage[s].pc = "recheck"
    /\ IF Error(pipes, cp) # NoErr
       THEN /\ stage' = [stage EXCEPT ![s].pc = "done"]
            /\ rd' = EndStage(rd, s)
            /\ hist' = [hist EXCEPT !.observed[s] = TRUE]
       ELSE /\ stage' = [stage EXCEPT ![s].pc = "push"]
            /\ UNCHANGED <<rd, hist>>
    /\ UNCHANGED <<pipes, ret, chain, counter, caller>>

\* It writes one line to its successor; the write blocks while the channel
\* is full and fails once the reading side has been released.
StagePush(s) ==
    /\ s <= NStages
    /\ stage[s].pc = "push"
    /\ IF rd[s + 1].released > 0
       THEN /\ stage' = [stage EXCEPT ![s].pc = "done"]
            /\ rd' = EndStage(rd, s)
            /\ UNCHANGED hist
       ELSE /\ ~ChanFull(rd, s + 1)
            /\ rd' = ChanWrite(rd, s + 1, Head(stage[s].out))
            /\ stage' = [stage EXCEPT
                  ![s].out = Tail(@),
                  ![s].pc = IF Tail(stage[s].out) = <<>> THEN "check" ELSE "recheck"]
            /\ hist' = [hist EXCEPT !.after = Counted(s)]
    /\ UNCHANGED <<pipes, ret, chain, counter, caller>>

StageStep(s) ==
    \/ StageCheck(s)
    \/ StagePull(s)
    \/ StageCall(s)
    \/ StageFailed(s)
    \/ StageRecord(s)
    \/ StageRecheck(s)
    \/ StagePush(s)

AllDone == \A s \in 1..NStages : stage[s].pc = "done"

\* Wait: reads the last stage's output to its end, ...
WaitDrain ==
    /\ caller.pc = "wait"
    /\ CanRead(rd, pipes[cp].Reader)
    /\ LET got == Read(pipes, rd, cp, CopyBuf)
       IN /\ rd' = got.rs
          /\ caller' = [caller EXCEPT !.pc = IF got.rerr = "EOF" THEN "join" ELSE "wait"]
    /\ UNCHANGED <<pipes, ret, chain, stage, counter, hist>>

\* ... joins the stages and returns the error of the Pipe.
WaitJoin ==
    /\ caller.pc = "join"
    /\ AllDone
    /\ caller' = [caller EXCEPT !.pc = "returned", !.waitRet = Error(pipes, cp)]
    /\ UNCHANGED <<pipes, rd, ret, chain, stage, counter, hist>>

\* History: hist.drainErr is the error the drained Pipe carried when
\* io.Copy came to its end.
\* Synchronize: the guard, ...
SyncEnter ==
    /\ caller.pc = "sync"
    /\ caller' = IF SyncNoop(pipes, cp)
                 THEN [caller EXCEPT !.pc = "post", !.sp = cp]
                 ELSE [caller EXCEPT !.pc = "copy"]
    /\ UNCHANGED <<pipes, rd, ret, chain, stage, counter, hist>>

\* ... io.Copy, read by read, while the stages run, and the new Pipe.
SyncCopy ==
    /\ caller.pc = "copy"
    /\ CanRead(rd, pipes[cp].Reader)
    /\ LET c == CopyStep(rd, pipes[cp].Reader, caller.w)
           res == SyncResult(pipes, c.rs, c.w)
       IN IF c.done
          THEN /\ pipes' = res.ps
               /\ rd' = res.rs
               /\ caller' = [caller EXCEPT !.pc = "post", !.sp = res.ref, !.w = c.w]
               /\ hist' = [hist EXCEPT !.drainErr = Error(pipes, cp)]
          ELSE /\ rd' = c.rs
               /\ caller' = [caller EXCEPT !.w = c.w]
               /\ UNCHANGED <<pipes, hist>>
    /\ UNCHANGED <<ret, chain, stage, counter>>

\* EachLine(timesTwo) on the Pipe Synchronize returned: nothing on a Pipe
\* with an error, else one call per line, in the caller.
PostCall ==
    /\ caller.pc = "post"
    /\ IF Error(pipes, caller.sp) # NoErr
       THEN /\ caller' = [caller EXCEPT !.pc = "returned"]
            /\ UNCHANGED <<rd, counter>>
       ELSE LET got == Read(pipes, rd, caller.sp, 1)
            IN /\ rd' = got.rs
               /\ IF got.rerr = "EOF"
                  THEN /\ caller' = [caller EXCEPT !.pc = "returned"]
                       /\ UNCHANGED counter
                  ELSE /\ caller' = [caller EXCEPT !.post = @ + 1]
                       /\ counter' = Effect("timesTwo", counter)
    /\ UNCHANGED <<pipes, ret, chain, stage, hist>>

CallerStep ==
    \/ WaitDrain
    \/ WaitJoin
    \/ SyncEnter
    \/ SyncCopy
    \/ PostCall

Iota(k) == [i \in 1..k |-> i]

ChainInit ==
    /\ \E kinds \in Chains, k \in 0..MaxRecords, mode \in {"wait", "sync"} :
       \E failAt \in [1..Len(kinds) -> 0..k] :
          /\ chain = [kinds |-> kinds, input |-> Iota(k), failAt |-> failAt,
                      mode |-> mode]
          /\ pipes = << [Reader |-> Len(kinds) + 1, err |-> NoErr, async |-> TRUE] >>
          /\ rd = [r \in 1..(Len(kinds) + 1) |->
                      IF r = 1 THEN MkReader(Iota(k), TRUE) ELSE MkReader(<<>>, FALSE)]
          /\ stage = [s \in 1..Len(kinds) |->
                         [pc |-> "check", cur |-> 0, out |-> <<>>, cnt |-> 0]]
          /\ caller = [NoCaller EXCEPT !.pc = mode]
          /\ hist = [firstErr |-> NoErr, after |-> [s \in 1..Len(kinds) |-> 0],
                     observed |-> [s \in 1..Len(kinds) |-> FALSE],
                     ahead |-> FALSE, late |-> FALSE, emitted |-> 0,
                     drainErr |-> NoErr]
    /\ counter = 0
    /\ ret = NoRet

ChainNext ==
    \/ \E s \in StageIds : StageCheck(s)
    \/ \E s \in StageIds : StagePull(s)
    \/ \E s \in StageIds : StageCall(s)
    \/ \E s \in StageIds : StageFailed(s)
    \/ \E s \in StageIds : StageRecord(s)
    \/ \E s \in StageIds : StageRecheck(s)
    \/ \E s \in StageIds : StagePush(s)
    \/ WaitDrain
    \/ WaitJoin
    \/ SyncEnter
    \/ SyncCopy
    \/ PostCall

SpecChain == ChainInit /\ [][ChainNext]_vars

\* Every stage is a goroutine of its own and the caller is one: each keeps
\* being scheduled.
FairChain ==
    /\ SpecChain
    /\ \A s \in StageIds : WF_vars(StageStep(s))
    /\ WF_vars(CallerStep)

----------------------------------------------------------------------------
\* Claims about the API, checked under Spec.

Methods == {"Close", "Error", "ExitStatus", "Read", "SetError", "WithReader",
            "WithError", "PipeStream", "Synchronize"}

\* C5 (as claimed): a Read on a Pipe whose error is set returns (0, EOF),
\* whatever data its source has left.
C5_ReadAfterErrorIsEndOfData ==
    (ret.op = "Read" /\ ret.recv # NilPipe /\ ret.pre.err # NoErr)
        => (ret.n = 0 /\ ret.rerr = "EOF")

\* C7: on a nil Pipe every method returns its zero result without a panic
\* and changes nothing: Error nil, ExitStatus 0, Close nil, Read (0, EOF),
\* and WithReader, WithError, Stream and Synchronize return the nil Pipe.
C7_NilSafe ==
    (ret.recv = NilPipe /\ ret.op \in Methods) =>
        /\ ~ret.fault
        /\ ~ret.changed
        /\ ret.e = NoErr
        /\ ret.n = 0
        /\ ret.data = <<>>
        /\ ret.ref = NilPipe
        /\ ret.rerr = (IF ret.op = "Read" THEN "EOF" ELSE "nil")

\* A method called on nil after pipes were made and used.
C7_Witness ==
    /\ ret.recv = NilPipe
    /\ ret.op = "PipeStream"
    /\ Len(pipes) > 0
    /\ pipes[1].async
    /\ pipes[1].err # NoErr

\* The receiver's source as the state has it: its bytes, its release count.
SourceOf(p) ==
    IF pipes[p].Reader = NoReader THEN [buf |-> <<>>, released |-> 0]
    ELSE [buf |-> rd[pipes[p].Reader].buf, released |-> rd[pipes[p].Reader].released]

\* C8: Synchronize on a Pipe that is nil, carries an error or is not
\* streaming returns the same Pipe and leaves source, error and flag alone.
C8_SynchronizeNoop ==
    (/\ ret.op = "Synchronize"
     /\ (ret.recv = NilPipe \/ ret.pre.err # NoErr \/ ~ret.pre.async)) =>
        /\ ~ret.fault
        /\ ret.ref = ret.recv
        /\ ~ret.changed
        /\ ret.recv # NilPipe =>
              /\ pipes[ret.recv].err = ret.pre.err
              /\ pipes[ret.recv].async = ret.pre.async
              /\ SourceOf(ret.recv).buf = ret.pre.buf
              /\ SourceOf(ret.recv).released = ret.pre.released

\* Synchronize called on a Pipe that is not streaming, with unread data.
C8_Witness ==
    /\ ret.op = "Synchronize"
    /\ ret.recv # NilPipe
    /\ ~ret.pre.async
    /\ ret.pre.err = NoErr
    /\ Len(ret.pre.buf) = MaxData
    /\ ret.pre.released = 0

\* The bytes a source yields from now until end-of-data.
Yields(src) == IF src.released > 0 THEN <<>> ELSE src.buf

\* C9: Synchronize on a streaming Pipe without error returns another Pipe,
\* not streaming, whose source yields the bytes the receiver's source had
\* left, in order; the receiver's source is at end-of-data.
C9_SynchronizeDrains ==
    (/\ ret.op = "Synchronize"
     /\ ret.recv # NilPipe
     /\ ret.pre.err = NoErr
     /\ ret.pre.async) =>
        /\ ~ret.fault
        /\ ret.ref \notin {NilPipe, ret.recv}
        /\ ~pipes[ret.ref].async
        /\ Yields(SourceOf(ret.ref)) = Yields(ret.pre)
        /\ Read(pipes, rd, ret.recv, MaxBuf).rerr = "EOF"

\* Synchronize has drained a source that took more than one read.
C9_Witness ==
    /\ ret.op = "Synchronize"
    /\ ret.ref \notin {NilPipe, ret.recv}
    /\ Len(ret.pre.buf) = MaxData
    /\ ret.pre.released = 0

----------------------------------------------------------------------------
\* Claims about the streaming chain, checked under SpecChain and FairChain.

NoFailure == \A s \in 1..NStages : chain.failAt[s] = 0

WaitReturned == caller.pc = "returned" /\ chain.mode = "wait"

SyncReturnedNew == caller.pc = "post" /\ caller.post = 0 /\ caller.sp # cp

\* C4: without failures, the Pipe that Synchronize returns for a streaming
\* chain holds the bytes that the same functions give when each runs to
\* its end before the next starts, in the same order.
C4_StreamEqualsBatch ==
    (SyncReturnedNew /\ NoFailure) =>
        /\ Yields(SourceOf(caller.sp)) = BatchRun(chain.kinds, chain.input)
        /\ caller.w = BatchRun(chain.kinds, chain.input)

\* Synchronize has returned the output of two transforming stages.
C4_Witness ==
    /\ SyncReturnedNew
    /\ NoFailure
    /\ chain.kinds = <<"twice", "succ">>
    /\ Len(chain.input) = MaxRecords
    /\ Len(Yields(SourceOf(caller.sp))) = 2 * MaxRecords

C10_Checkpoint == ~hist.late

----------------------------------------------------------------------------
\* Further claims about the API, checked under Spec.

----------------------------------------------------------------------------
\* Further claims about the streaming chain, checked under SpecChain and
\* FairChain.

\* The channels of the chain: the readers that a stage writes.
Channels == 2..(NStages + 1)

\* The lines stage s receives when nothing fails before it.
In(s) ==
    IF s = 1 THEN chain.input
    ELSE BatchRun(SubSeq(chain.kinds, 1, s - 1), chain.input)

\* The lines stage s has produced with the calls it has made, those not yet
\* written included; a failing call produces none.
Emitted(s) ==
    LET good == IF chain.failAt[s] \in 1..stage[s].cnt
                THEN stage[s].cnt - 1 ELSE stage[s].cnt
    IN EachLineBatch(chain.kinds[s], SubSeq(In(s), 1, good))

\* How many of them it has written to its channel.
Written(s) == Len(Emitted(s)) - Len(stage[s].out)

\* Whether the lines taken from channel r are on record: by the next stage
\* they are, by Synchronize they are, Wait throws them away.
Tracked(r) == r <= NStages \/ chain.mode = "sync"

\* How many lines its reader has taken from channel r.
Taken(r) ==
    IF r <= NStages
    THEN stage[r].cnt + (IF stage[r].pc = "call" THEN 1 ELSE 0)
    ELSE Len(caller.w)

\* A reader of channel r would block: nothing in it, and it is still open.
Starved(r) == rd[r].buf = <<>> /\ ~rd[r].wclosed /\ rd[r].released = 0

\* C14: a channel never holds more than Cap lines; what it holds is what
\* was written less what was taken, nothing lost and nothing twice, until
\* its reading side is released; a stage about to write a full channel
\* does not move, nor does a reader of an empty channel that is still open.
C14_Backpressure ==
    /\ [](\A r \in Channels :
            /\ Len(rd[r].buf) <= Cap
            /\ (Tracked(r) /\ (rd[r].released = 0 \/ NoFailure)) =>
                  Len(rd[r].buf) = Written(r - 1) - Taken(r))
    /\ [][\A s \in 1..NStages :
            /\ (stage[s].pc = "push" /\ ChanFull(rd, s + 1)
                    /\ rd[s + 1].released = 0) => stage'[s] = stage[s]
            /\ (stage[s].pc = "pull" /\ Starved(s)) => stage'[s] = stage[s]]_vars
    /\ [][(caller.pc \in {"wait", "copy"} /\ Starved(NStages + 1))
              => caller' = caller]_vars

\* The first stage stands before a full channel with lines still to come,
\* and the second stage has been called already.
C14_Witness ==
    /\ NoFailure
    /\ stage[1].pc = "push"
    /\ ChanFull(rd, 2)
    /\ Len(rd[2].buf) = Cap
    /\ stage[1].cnt < Len(chain.input)
    /\ stage[2].cnt > 0

\* C15: a stage is called on the lines of its predecessor in their order;
\* what it has written is, in order, what it emits for the first line, then
\* for the second, and so on; the lines in its channel are those written and
\* not yet taken, in that order; and no reader has taken a line that was
\* not written.
C15_OrderPreserved ==
    /\ \A s \in 1..NStages :
          /\ stage[s].pc = "call" =>
                /\ stage[s].cnt < Len(In(s))
                /\ stage[s].cur = In(s)[stage[s].cnt + 1]
          /\ stage[s].out = SubSeq(Emitted(s), Written(s) + 1, Len(Emitted(s)))
          /\ (Tracked(s + 1) /\ (rd[s + 1].released = 0 \/ NoFailure)) =>
                /\ Taken(s + 1) <= Written(s)
                /\ rd[s + 1].buf = SubSeq(Emitted(s), Taken(s + 1) + 1, Written(s))
    /\ (chain.mode = "sync" /\ caller.pc = "copy") =>
          caller.w = SubSeq(Emitted(NStages), 1, Len(caller.w))

\* Two different lines wait in the channel while the second stage is
\* called on the one before them.
C15_Witness ==
    /\ chain.kinds = <<"succ", "twice">>
    /\ NoFailure
    /\ Len(rd[2].buf) = Cap
    /\ rd[2].buf[1] # rd[2].buf[Cap]
    /\ stage[2].pc = "call"
    /\ stage[2].cur < rd[2].buf[1]

\* C19 (as claimed): an error that a stage recorded while Synchronize was
\* draining the Pipe is the error of the Pipe that Synchronize returns.
C19_DrainErrorKept ==
    (caller.sp \notin {NilPipe, cp} /\ hist.drainErr # NoErr) =>
        Error(pipes, caller.sp) = hist.drainErr

\* The caller has its result: Wait has returned, or the stage chained
\* after Synchronize has run to its end.
CallerReturned == caller.pc = "returned"

\* C16: on an empty input no stage function is ever called, every stage
\* ends, and the caller returns, Wait with nil; and a Read of a Pipe fresh
\* from NewPipe does not block and returns (0, EOF).
C16_EmptyInputTerminates ==
    /\ [](chain.input = <<>> => \A s \in 1..NStages : stage[s].cnt = 0)
    /\ (chain.input = <<>>) ~>
          (AllDone /\ CallerReturned /\ caller.waitRet = NoErr /\ ~ErrSet)
    /\ [](LET np == NewPipe(<<>>, <<>>)
          IN \A len \in 0..MaxBuf :
                /\ CanRead(np.rs, np.ps[np.ref].Reader)
                /\ Read(np.ps, np.rs, np.ref, len) = EndOfData(np.ps, np.rs))

\* Wait has returned on a chain without input.
C16_Witness ==
    /\ chain.input = <<>>
    /\ WaitReturned
    /\ AllDone
    /\ \A s \in 1..NStages : stage[s].cnt = 0

----------------------------------------------------------------------------
Sinks == {"String", "CountLines"}

----------------------------------------------------------------------------
\* C17: Stream() returns a new Pipe that is streaming, with an empty source
\* and no error; p.Stream() returns p, streaming, its source and error as
\* they were; no call turns the streaming flag of a Pipe off; and the Pipe a
\* call on a streaming Pipe returns is streaming, unless the call is
\* Synchronize.
C17_StreamingPersists ==
    /\ [](ret.op = "Stream" =>
            /\ ~ret.fault
            /\ ret.ref # NilPipe
            /\ ~ret.pre.async
            /\ pipes[ret.ref].async
            /\ pipes[ret.ref].Reader = NoReader
            /\ pipes[ret.ref].err = NoErr)
    /\ []((ret.op = "PipeStream" /\ ret.recv # NilPipe) =>
            /\ ~ret.fault
            /\ ret.ref = ret.recv
            /\ pipes[ret.recv].async
            /\ pipes[ret.recv].err = ret.pre.err
            /\ SourceOf(ret.recv).buf = ret.pre.buf
            /\ SourceOf(ret.recv).released = ret.pre.released)
    /\ [][\A p \in 1..Len(pipes) : pipes[p].async => pipes'[p].async]_vars
    /\ []((ret.pre.async /\ ret.op # "Synchronize") =>
            /\ pipes[ret.recv].async
            /\ ret.ref # NilPipe => pipes[ret.ref].async)

\* WithReader on a streaming Pipe that carries an error.
C17_Witness ==
    /\ ret.op = "WithReader"
    /\ ret.pre.async
    /\ ret.pre.err # NoErr
    /\ ret.ref = ret.recv
    /\ pipes[ret.ref].async
    /\ Len(SourceOf(ret.ref).buf) = MaxData

\* C18: after SetError(e) and after WithError(e) on a Pipe, Error() is e,
\* whatever the error was and also when e is nil; source and streaming flag
\* are as they were; and WithError returns its receiver.
C18_SetErrorOverwrites ==
    (ret.op \in {"SetError", "WithError"} /\ ret.recv # NilPipe) =>
        /\ ~ret.fault
        /\ Error(pipes, ret.recv) = ret.arg
        /\ pipes[ret.recv].async = ret.pre.async
        /\ SourceOf(ret.recv).buf = ret.pre.buf
        /\ SourceOf(ret.recv).released = ret.pre.released
        /\ ret.op = "WithError" => ret.ref = ret.recv

\* SetError(nil) on a Pipe that carried an error.
C18_Witness ==
    /\ ret.op = "SetError"
    /\ ret.recv # NilPipe
    /\ ret.pre.err # NoErr
    /\ ret.arg = NoErr
    /\ Error(pipes, ret.recv) = NoErr

\* C20: the error of a Pipe changes only in a call of SetError or WithError
\* on that Pipe: Read, Close, Error, ExitStatus, Stream, WithReader,
\* Synchronize and the sinks leave the error of every Pipe as it is.
C20_ErrorNeverCleared ==
    [][\A p \in 1..Len(pipes) :
          pipes'[p].err # pipes[p].err =>
              (ret'.op \in {"SetError", "WithError"} /\ ret'.recv = p)]_vars

\* Synchronize has returned a streaming Pipe with its error in place.
C20_Witness ==
    /\ ret.op = "Synchronize"
    /\ ret.recv # NilPipe
    /\ ret.pre.async
    /\ ret.pre.err \in Errs
    /\ Len(ret.pre.buf) = MaxData
    /\ Error(pipes, ret.recv) = ret.pre.err

\* Claims about ExitStatus, checked under SpecExit.

Numerals == <<"0", "1", "2", "3", "4", "5", "6", "7", "8", "9">>

\* The number a run of digits denotes, read from the left.
RECURSIVE DecimalValue(_, _)
DecimalValue(ds, acc) ==
    IF ds = <<>> THEN acc
    ELSE DecimalValue(Tail(ds),
                      10 * acc + (CHOOSE d \in 0..9 : Numerals[d + 1] = Head(ds)))

AllDigits(ds) == ds # <<>> /\ \A i \in 1..Len(ds) : (\E d \in 1..Len(Numerals) : Numerals[d] = ds[i])

\* The text from position i on is "exit status " and then digits to the end.
StatusAt(t, i) ==
    /\ i + Len(ExitPrefix) <= Len(t)
    /\ SubSeq(t, i, i + Len(ExitPrefix) - 1) = ExitPrefix
    /\ AllDigits(SubSeq(t, i + Len(ExitPrefix), Len(t)))

\* What ExitStatus must return for digits ds: their value; for a run too
\* long for this check to evaluate, a number that is 0 only if they all are.
ReturnsValue(ds) ==
    IF Len(ds) <= MaxDigits THEN ret.n = DecimalValue(ds, 0)
    ELSE (ret.n = 0) <=> (\A i \in 1..Len(ds) : ds[i] = "0")

\* C12 (as claimed): ExitStatus returns N when the text of the error is
\* "exit status " and then the digits of N to the end of the text, and 0 in
\* every other case.
C12_ExitStatusExact ==
    ret.op = "ExitStatus" =>
        IF ret.recv = NilPipe \/ ret.pre.err.nil THEN ret.n = 0
        ELSE IF StatusAt(ret.pre.err.text, 1)
        THEN ReturnsValue(SubSeq(ret.pre.err.text, Len(ExitPrefix) + 1,
                                 Len(ret.pre.err.text)))
        ELSE ret.n = 0

\* C12 (amended): ExitStatus returns N when the text of the error ends with
\* "exit status " and then the digits of N, whatever precedes them, and N
\* is no more than the largest int; it returns 0 in every other case.
C12_ExitStatusSuffix ==
    ret.op = "ExitStatus" =>
        IF ret.recv = NilPipe \/ ret.pre.err.nil THEN ret.n = 0
        ELSE LET t == ret.pre.err.text
                 at == { i \in 1..Len(t) : StatusAt(t, i) }
             IN IF at = {} THEN ret.n = 0
                ELSE \A i \in at :
                       LET ds == SubSeq(t, i + Len(ExitPrefix), Len(t))
                       IN IF AtoiOverflows(ds) THEN ret.n = 0
                          ELSE ReturnsValue(ds)

\* ExitStatus has returned 127 for "xexit status 127".
C12_Witness ==
    /\ ret.op = "ExitStatus"
    /\ ret.recv # NilPipe
    /\ ret.pre.err = MkErr(<<"x">> \o ExitPrefix \o <<"1", "2", "7">>)
    /\ ret.n = 127

====
